---- MODULE Spec2Model ----
(***************************************************************************)
(* The `send` pipeline of optimus (src/repo-zipper/src/main.rs): loading   *)
(* the configuration, resolving and validating the archive format, the     *)
(* eligibility check, the confirmation prompt, the archive builder with    *)
(* its inclusion filter, and the uploader.                                  *)
(*                                                                         *)
(* Strings whose contents the code inspects (paths, exclusion entries,     *)
(* suffixes) are sequences of one-character strings, so contains() and     *)
(* ends_with() are computed as the code computes them.  Strings the code   *)
(* only compares for equality (formats) are TLA+ strings.                  *)
(***************************************************************************)
EXTENDS Integers, Sequences, FiniteSets, TLC

(* ---------------- bounds ---------------- *)

\* largest number of entries below the root in a working tree
MaxEntries == 3

\* largest remaining_attempts value the server reports (smallest is -1)
MaxAttempts == 1

\* versions (of the installed binary and of the latest release) are 0..MaxVersion
MaxVersion == 2

\* bits standing for the 64 bits of the u64 and i64 second counts
TimeBits == 3

(* ---------------- string literals of the source ---------------- *)

S_git ==
    <<".", "g", "i", "t">>

S_DS_Store ==
    <<".", "D", "S", "_", "S", "t", "o", "r", "e">>

S_target ==
    <<"t", "a", "r", "g", "e", "t">>

S_node_modules ==
    <<"n", "o", "d", "e", "_", "m", "o", "d", "u", "l", "e", "s">>

S_zip ==
    <<".", "z", "i", "p">>

S_py ==
    <<".", "p", "y">>

S_requirements_txt ==
    <<"r", "e", "q", "u", "i", "r", "e", "m", "e", "n", "t", "s", ".", "t", "x", "t">>

S_pyproject_toml ==
    <<"p", "y", "p", "r", "o", "j", "e", "c", "t", ".", "t", "o", "m", "l">>

S_setup_py ==
    <<"s", "e", "t", "u", "p", ".", "p", "y">>

S_setup_cfg ==
    <<"s", "e", "t", "u", "p", ".", "c", "f", "g">>

S_Pipfile ==
    <<"P", "i", "p", "f", "i", "l", "e">>

S_Pipfile_lock ==
    <<"P", "i", "p", "f", "i", "l", "e", ".", "l", "o", "c", "k">>

S_poetry_lock ==
    <<"p", "o", "e", "t", "r", "y", ".", "l", "o", "c", "k">>

S_submission_yml ==
    <<"s", "u", "b", "m", "i", "s", "s", "i", "o", "n", ".", "y", "m", "l">>

(* ---------------- paths used to populate working trees ---------------- *)

P_a_py ==
    <<"a", ".", "p", "y">>

P_r_md ==
    <<"r", ".", "m", "d">>

P_git ==
    <<".", "g", "i", "t">>

P_git_c ==
    <<".", "g", "i", "t", "/", "c">>

P_submission_yml ==
    <<"s", "u", "b", "m", "i", "s", "s", "i", "o", "n", ".", "y", "m", "l">>

P_xsubmission_yml ==
    <<"x", "s", "u", "b", "m", "i", "s", "s", "i", "o", "n", ".", "y", "m", "l">>

P_retargeting_py ==
    <<"r", "e", "t", "a", "r", "g", "e", "t", "i", "n", "g", ".", "p", "y">>

P_d ==
    <<"d">>

P_d_b_py ==
    <<"d", "/", "b", ".", "p", "y">>

RootPlain ==
    <<"/", "w", "/", "p">>

RootTarget ==
    <<"/", "w", "/", "t", "a", "r", "g", "e", "t">>

P_old ==
    <<"o", "l", "d">>

TempDir ==
    <<"/", "t", "m", "p">>

Slash ==
    <<"/">>

(* ---------------- pure string functions ---------------- *)

\* str::contains: e occurs in s as a contiguous substring
Contains(s, e) ==
    \E i \in 0..(Len(s) - Len(e)) : SubSeq(s, i + 1, i + Len(e)) = e

\* str::ends_with
EndsWith(s, e) ==
    /\ Len(e) <= Len(s)
    /\ SubSeq(s, Len(s) - Len(e) + 1, Len(s)) = e

(* ---------------- working trees ---------------- *)

None == "None"

\* an entry below the root: its path relative to the root, and its kind
Entry(name, kind) ==
    [name |-> name, kind |-> kind]

Universe ==
    { Entry(P_a_py, "file"), Entry(P_r_md, "file"),
      Entry(P_git, "dir"), Entry(P_git_c, "file"),
      Entry(P_submission_yml, "file"), Entry(P_xsubmission_yml, "file"),
      Entry(P_retargeting_py, "file"),
      Entry(P_d, "dir"), Entry(P_d_b_py, "file") }

\* the relative path of the directory holding p (<<>> is the root)
RECURSIVE ParentPath(_)
ParentPath(p) ==
    IF p = <<>> THEN <<>>
    ELSE IF p[Len(p)] = "/" THEN SubSeq(p, 1, Len(p) - 1)
    ELSE ParentPath(SubSeq(p, 1, Len(p) - 1))

\* every entry's directory is the root or a directory of the tree
ParentClosed(t) ==
    \A e \in t : ParentPath(e.name) = <<>> \/ Entry(ParentPath(e.name), "dir") \in t

Trees ==
    {t \in SUBSET Universe : Cardinality(t) <= MaxEntries /\ ParentClosed(t)}

Roots ==
    {RootPlain, RootTarget}

(* ---------------- inputs ---------------- *)

\* format strings a user or the server can supply ("tar" is not accepted)
Formats ==
    {"repo", "py", "tar"}

\* user-supplied `exclude` lists of the configuration file
ExcludeLists ==
    {<<>>, <<P_d>>}

Attempts ==
    (0 - 1)..MaxAttempts

\* i64::MAX, the largest tv_sec of a SystemTime
I64Max ==
    2 ^ (TimeBits - 1) - 1

\* u64::MAX
U64Max ==
    2 ^ TimeBits - 1

\* last_submission_by_user = None
NoTimestamp ==
    0 - 1

\* values of last_submission_by_user: Option<u64>
Timestamps ==
    {NoTimestamp, 0, U64Max}

\* the subcommands of Cli
Commands ==
    {"send", "init", "update"}

\* major version numbers standing for semver::Version values
Versions ==
    0..MaxVersion

\* the concurrent `send` processes of the two-run specification
Runs ==
    {1, 2}

VARIABLES
    command,          \* cli.command
    pc,               \* position of main in the arm of the command
    force,            \* update --force
    init_api_key,     \* init --api-key (None when absent)
    init_competition_id, \* init --competition-id (None when absent)
    force_format,     \* --force-format (None when absent)
    auto_confirm,     \* --auto-confirm
    config_data,      \* the loaded SubmissionConfig (NoConfig before load_config)
    check_response,   \* the CheckResponse (NoResponse when none was received)
    parsed_response,  \* check_with_server: the body parsed at line 237
    format,           \* the resolved format (None before resolution)
    current_dir,      \* env::current_dir() as read by create_zip_archive
    zip_path,         \* temp_dir.join("{dir_name}.zip") (<<>> before)
    tree,             \* the entries below current_dir seen by the walk
    excl_skipped,     \* walked entries skipped by the exclusion test
    zip_file,         \* the file at zip_path (NoFile when it does not exist)
    zip_content,      \* the bytes read by the uploader (NoContent before)
    status,           \* status class of the /submit response ("None" before)
    exit_code,        \* "running", "zero" or "nonzero"
    error,            \* which step returned the Err main exits with
    confirmed,        \* the user's answer at the prompt ("none" before)
    check_requests,   \* GET /check requests sent
    submit_requests,  \* POST /submit requests sent
    prompts,          \* confirmation prompts shown
    file_creates,     \* File::create calls on zip_path
    file_removes,     \* remove_file calls on zip_path
    resolutions,      \* assignments of the resolved format
    config_file,      \* init: the file at config_path
    overwrite,        \* init: the answer to "Overwrite?" ("none" before)
    current_version,  \* update: CARGO_PKG_VERSION
    latest_version,   \* update: the version of the latest release
    update_result,    \* update: what check_for_updates returned
    installer,        \* update: how the downloaded file is installed
    asset,            \* update: the outcome of the asset selection
    downloads,        \* update: GET requests for the download URL
    installs,         \* update: installer processes run
    install_confirm,  \* update: the answer to "Continue?" ("none" before)
    r_dir,            \* two runs: current_dir of each run
    r_pc,             \* two runs: position of each run
    r_fd,             \* two runs: the inode each run writes its archive to
    r_sent,           \* two runs: what each run read for its upload
    r_error,          \* two runs: the Err each run ended with
    r_removes,        \* two runs: files each run removed
    fs                \* two runs: the file at each zip path

vars ==
    <<command, pc, force, init_api_key, init_competition_id,
      force_format, auto_confirm, config_data, check_response,
      parsed_response, format,
      current_dir, zip_path, tree, excl_skipped, zip_file, zip_content, status,
      exit_code, error, confirmed, check_requests, submit_requests, prompts,
      file_creates, file_removes, resolutions,
      config_file, overwrite,
      current_version, latest_version, update_result, installer, asset,
      downloads, installs, install_confirm,
      r_dir, r_pc, r_fd, r_sent, r_error, r_removes, fs>>

\* the parsed command line
ctl_vars ==
    <<command, force, init_api_key, init_competition_id, force_format,
      auto_confirm>>

init_vars ==
    <<config_file, overwrite>>

update_vars ==
    <<current_version, latest_version, update_result, installer, asset,
      downloads, installs, install_confirm>>

race_vars ==
    <<r_dir, r_pc, r_fd, r_sent, r_error, r_removes, fs>>

gate_vars ==
    <<check_response, parsed_response, confirmed, check_requests, prompts>>

fmt_vars ==
    <<format, resolutions>>

build_vars ==
    <<current_dir, zip_path, tree, excl_skipped, zip_file, file_creates,
      file_removes>>

path_vars ==
    <<current_dir, zip_path>>

upload_vars ==
    <<zip_content, status, submit_requests>>

\* everything the Send arm reads or writes besides the command line
send_vars ==
    <<config_data, gate_vars, fmt_vars, build_vars, upload_vars>>

\* zip_path does not exist
NoFile ==
    [origin |-> "none", entries |-> {}, finished |-> FALSE]

\* nothing read yet by the uploader
NoContent ==
    [read |-> FALSE, entries |-> {}]

\* before load_config
NoConfig ==
    [format |-> None, exclude |-> <<>>, preferences |-> [auto_confirm |-> FALSE]]

\* no CheckResponse was received
NoResponse ==
    [submission_approved |-> FALSE, required_format |-> None,
     remaining_attempts |-> 0, last_submission_by_user |-> NoTimestamp]

\* a file left at zip_path by an earlier run
StaleZip ==
    [origin |-> "stale", entries |-> {Entry(P_old, "file")}, finished |-> TRUE]

\* config_path does not exist
NoConfigFile ==
    [state |-> "absent", api_key |-> None, competition_id |-> None]

\* configuration files found at config_path by `init`
ConfigFiles ==
    {NoConfigFile} \cup
    [state : {"user"}, api_key : {"secret"}, competition_id : {None, "comp"}]

\* where main starts in the arm of each command
StartOf(cmd) ==
    IF cmd = "send" THEN "load" ELSE cmd

\* the `send` state before load_config
SendStart ==
    /\ config_data = NoConfig
    /\ check_response = NoResponse
    /\ parsed_response = NoResponse
    /\ format = None
    /\ current_dir = <<>>
    /\ zip_path = <<>>
    /\ tree = {}
    /\ excl_skipped = {}
    /\ zip_content = NoContent
    /\ status = None
    /\ confirmed = "none"
    /\ check_requests = 0
    /\ submit_requests = 0
    /\ prompts = 0
    /\ file_creates = 0
    /\ file_removes = 0
    /\ resolutions = 0

\* the `init` and `update` state before the command acts
OtherStart ==
    /\ overwrite = "none"
    /\ latest_version = 0
    /\ update_result = "unknown"
    /\ installer = "none"
    /\ asset = "unknown"
    /\ downloads = 0
    /\ installs = 0
    /\ install_confirm = "none"

\* a run has not read the file at its zip path
NotRead ==
    [read |-> FALSE, writers |-> {}, complete |-> FALSE]

\* the two-run variables, unused by the single-process specification
RaceIdle ==
    /\ r_dir = [r \in Runs |-> <<>>]
    /\ r_pc = [r \in Runs |-> "done"]
    /\ r_fd = [r \in Runs |-> 0]
    /\ r_sent = [r \in Runs |-> NotRead]
    /\ r_error = [r \in Runs |-> "none"]
    /\ r_removes = [r \in Runs |-> 0]
    /\ fs = <<>>

Init ==
    /\ command \in Commands
    /\ pc = StartOf(command)
    /\ exit_code = "running"
    /\ error = "none"
    /\ force_format \in IF command = "send" THEN Formats \cup {None} ELSE {None}
    /\ auto_confirm \in IF command = "send" THEN BOOLEAN ELSE {FALSE}
    /\ zip_file \in IF command = "send" THEN {NoFile, StaleZip} ELSE {NoFile}
    /\ init_api_key \in IF command = "init" THEN {None, "key"} ELSE {None}
    /\ init_competition_id \in IF command = "init" THEN {None, "comp"} ELSE {None}
    /\ config_file \in IF command = "init" THEN ConfigFiles ELSE {NoConfigFile}
    /\ force \in IF command = "update" THEN BOOLEAN ELSE {FALSE}
    /\ current_version \in IF command = "update" THEN Versions ELSE {0}
    /\ SendStart
    /\ OtherStart
    /\ RaceIdle

\* `return Err(..)` / `?` out of main
Fail(kind) ==
    /\ pc' = "done"
    /\ exit_code' = "nonzero"
    /\ error' = kind

\* main goes on to its next step
Goto(label) ==
    /\ pc' = label
    /\ exit_code' = exit_code
    /\ error' = error

\* `return Ok(())` out of main
Succeed ==
    /\ pc' = "done"
    /\ exit_code' = "zero"
    /\ error' = error

(* ---------------- main, Send arm: configuration ---------------- *)

\* load_config succeeds
LoadConfig ==
    /\ pc = "load"
    /\ \E f \in Formats \cup {None}, a \in BOOLEAN, x \in ExcludeLists :
          config_data' = [format |-> f, exclude |-> x,
                          preferences |-> [auto_confirm |-> a]]
    /\ Goto("resolve")
    /\ UNCHANGED <<ctl_vars, init_vars, update_vars, race_vars, gate_vars, fmt_vars, build_vars, upload_vars>>

\* load_config fails: file missing, unreadable or not a SubmissionConfig
LoadConfigFails ==
    /\ pc = "load"
    /\ Fail("config")
    /\ UNCHANGED <<ctl_vars, init_vars, update_vars, race_vars, config_data, gate_vars, fmt_vars, build_vars,
                   upload_vars>>

\* variant: the configured preference is not consulted
auto_confirm_cli_only ==
    auto_confirm

auto_confirm_submission ==
    auto_confirm \/ config_data.preferences.auto_confirm

\* variant: the configured format takes precedence over the forced one
ResolveLocal_ConfigFirst(forced, configured) ==
    IF configured # None THEN configured ELSE forced

\* the first two arms of `let format = if let Some(forced) ... else if ...`
ResolveLocal(forced, configured) ==
    IF forced # None THEN forced ELSE configured

\* variant: a configured format does not skip the check
NeedsCheck_IgnoresConfig(forced, configured) ==
    forced = None

\* the last arm is taken: main calls check_with_server
NeedsCheck(forced, configured) ==
    forced = None /\ configured = None

\* format taken from --force-format or from the configuration file
ResolveFormat ==
    /\ pc = "resolve"
    /\ ~NeedsCheck(force_format, config_data.format)
    /\ format' = ResolveLocal(force_format, config_data.format)
    /\ resolutions' = resolutions + 1
    /\ Goto("validate")
    /\ UNCHANGED <<ctl_vars, init_vars, update_vars, race_vars, config_data, gate_vars, build_vars, upload_vars>>

(* ---------------- check_with_server and the gate after it ---------------- *)

CheckResponses ==
    [submission_approved : BOOLEAN, required_format : Formats,
     remaining_attempts : Attempts, last_submission_by_user : Timestamps]

\* `UNIX_EPOCH + Duration::from_secs(last_submission)`: SystemTime's Add
\* panics when checked_add finds no representable tv_sec
AddOverflows(last_submission) ==
    last_submission # NoTimestamp /\ last_submission > I64Max

\* the process ends on a panic: nothing is returned to main
Panic ==
    /\ pc' = "done"
    /\ exit_code' = "nonzero"
    /\ error' = "panic"

\* variant: submission_approved is not tested
AfterCheck_IgnoresApproval(approved, auto) ==
    IF auto THEN "validate" ELSE "confirm"

\* where main goes with the CheckResponse: return Ok, prompt, or go on
AfterCheck(approved, auto) ==
    IF ~approved THEN "done"
    ELSE IF auto THEN "validate" ELSE "confirm"

\* the else arm yields check_response.required_format
YieldServerFormat(r) ==
    /\ format' = r.required_format
    /\ resolutions' = resolutions + 1

\* GET /check answered with a success status and a parseable body
CheckWithServer ==
    /\ pc = "resolve"
    /\ NeedsCheck(force_format, config_data.format)
    /\ check_requests' = check_requests + 1
    /\ \E r \in CheckResponses :
          /\ ~AddOverflows(r.last_submission_by_user)
          /\ parsed_response' = r
          /\ check_response' = r
          /\ LET next == AfterCheck(r.submission_approved,
                                    auto_confirm_submission) IN
             /\ IF next = "done" THEN Succeed ELSE Goto(next)
             /\ IF next = "validate"
                   THEN YieldServerFormat(r)
                   ELSE UNCHANGED fmt_vars
    /\ UNCHANGED <<ctl_vars, init_vars, update_vars, race_vars, config_data, confirmed, prompts, build_vars,
                   upload_vars>>

\* the body parses, and the elapsed-time report panics at line 254
CheckWithServerPanics ==
    /\ pc = "resolve"
    /\ NeedsCheck(force_format, config_data.format)
    /\ check_requests' = check_requests + 1
    /\ \E r \in CheckResponses :
          /\ AddOverflows(r.last_submission_by_user)
          /\ parsed_response' = r
    /\ Panic
    /\ UNCHANGED <<ctl_vars, init_vars, update_vars, race_vars, config_data, check_response, confirmed,
                   prompts, fmt_vars, build_vars, upload_vars>>

\* variant: a failed check falls back to the default format
CheckWithServerFails_DefaultsToRepo ==
    /\ pc = "resolve"
    /\ NeedsCheck(force_format, config_data.format)
    /\ check_requests' = check_requests + 1
    /\ format' = "repo"
    /\ resolutions' = resolutions + 1
    /\ Goto("validate")
    /\ UNCHANGED <<ctl_vars, init_vars, update_vars, race_vars, config_data, check_response, parsed_response, confirmed, prompts,
                   build_vars, upload_vars>>

\* transport failure or timeout, non-success status, or unparseable body
CheckWithServerFails ==
    /\ pc = "resolve"
    /\ NeedsCheck(force_format, config_data.format)
    /\ check_requests' = check_requests + 1
    /\ Fail("check")
    /\ UNCHANGED <<ctl_vars, init_vars, update_vars, race_vars, config_data, check_response, parsed_response, confirmed, prompts,
                   fmt_vars, build_vars, upload_vars>>

\* variant: the answer is not tested
AfterConfirm_AlwaysProceeds(answer) ==
    "validate"

\* where main goes with the user's answer
AfterConfirm(answer) ==
    IF answer THEN "validate" ELSE "done"

\* the user answers the prompt
Confirm ==
    /\ pc = "confirm"
    /\ prompts' = prompts + 1
    /\ \E answer \in BOOLEAN :
          /\ confirmed' = IF answer THEN "yes" ELSE "no"
          /\ IF AfterConfirm(answer) = "done"
                THEN Succeed /\ UNCHANGED fmt_vars
                ELSE /\ Goto(AfterConfirm(answer))
                     /\ YieldServerFormat(check_response)
    /\ UNCHANGED <<ctl_vars, init_vars, update_vars, race_vars, config_data, check_response, parsed_response, check_requests,
                   build_vars, upload_vars>>

\* interact() fails (no terminal)
ConfirmFails ==
    /\ pc = "confirm"
    /\ prompts' = prompts + 1
    /\ Fail("prompt")
    /\ UNCHANGED <<ctl_vars, init_vars, update_vars, race_vars, config_data, check_response, parsed_response, confirmed,
                   check_requests, fmt_vars, build_vars, upload_vars>>

\* variant: no validation of the resolved format
FormatAccepted_NoCheck(f) ==
    f # None

\* `format != "repo" && format != "py"` is false
FormatAccepted(f) ==
    f = "repo" \/ f = "py"

ValidateFormat ==
    /\ pc = "validate"
    /\ IF FormatAccepted(format) THEN Goto("build") ELSE Fail("format")
    /\ UNCHANGED <<ctl_vars, init_vars, update_vars, race_vars, config_data, gate_vars, fmt_vars, build_vars,
                   upload_vars>>

(* ---------------- the inclusion filter of create_zip_archive ---------------- *)

\* `excluded`: the baseline followed by the custom exclusions
Excluded(custom_exclusions) ==
    <<S_git, S_DS_Store, S_target, S_node_modules, S_zip>> \o custom_exclusions

\* `include_patterns`
IncludePatterns(fmt) ==
    IF fmt = "py"
       THEN <<S_py, S_requirements_txt, S_pyproject_toml, S_setup_py,
              S_setup_cfg, S_Pipfile, S_Pipfile_lock, S_poetry_lock>>
       ELSE <<>>

\* the root itself, as WalkDir yields it first
RootEntry ==
    Entry(<<>>, "dir")

\* entry.path(): WalkDir::new(&current_dir) yields paths that start with it
EntryPath(root, name) ==
    IF name = <<>> THEN root ELSE root \o Slash \o name

\* variant: an exclusion entry must be the last path segment
ExcludedByList_LastSegment(path_str, excluded) ==
    \E i \in 1..Len(excluded) : EndsWith(path_str, Slash \o excluded[i])

\* `excluded.iter().any(|e| path_str.contains(e))`
ExcludedByList(path_str, excluded) ==
    \E i \in 1..Len(excluded) : Contains(path_str, excluded[i])

\* `path_str.ends_with("submission.yml")`
IsSubmissionYml(path_str) ==
    EndsWith(path_str, S_submission_yml)

\* variant: the allow-list is not applied
ShouldInclude_Always(path_str, fmt) ==
    TRUE

\* `should_include`: some include pattern is a suffix of path_str
ShouldInclude(path_str, fmt) ==
    \E i \in 1..Len(IncludePatterns(fmt)) :
        EndsWith(path_str, IncludePatterns(fmt)[i])

\* one iteration of the walk: does entry e become an archive entry
Archived(root, e, fmt, custom_exclusions) ==
    LET path_str == EntryPath(root, e.name) IN
    /\ ~ExcludedByList(path_str, Excluded(custom_exclusions))
    /\ ~IsSubmissionYml(path_str)
    /\ path_str # root
    /\ (fmt = "py" /\ e.kind = "file") => ShouldInclude(path_str, fmt)
    /\ e.kind = "file" \/ (e.kind = "dir" /\ e.name # <<>>)

\* the entries of the archive after a complete walk
ArchiveEntries(root, t, fmt, custom_exclusions) ==
    {e \in t \cup {RootEntry} : Archived(root, e, fmt, custom_exclusions)}

(* ---------------- create_zip_archive ---------------- *)

Exists(f) ==
    f # NoFile

\* variant: an existing file at zip_path is not removed
StaleRemovals_None(f) ==
    0

\* remove_file calls made by `if zip_path.exists() { remove_file }`
StaleRemovals(f) ==
    IF Exists(f) THEN 1 ELSE 0

\* `current_dir.file_name()`: the last component of an absolute path
RECURSIVE FileName(_)
FileName(path) ==
    IF path = <<>> \/ path[Len(path)] = "/" THEN <<>>
    ELSE Append(FileName(SubSeq(path, 1, Len(path) - 1)), path[Len(path)])

\* `temp_dir.join(format!("{}.zip", dir_name))`
ZipPath(dir) ==
    TempDir \o Slash \o FileName(dir) \o S_zip

\* current_dir, stale-file removal and File::create
BuildStart ==
    /\ pc = "build"
    /\ current_dir' \in Roots
    /\ zip_path' = ZipPath(current_dir')
    /\ file_removes' = file_removes + StaleRemovals(zip_file)
    /\ zip_file' = [origin |-> "run", entries |-> {}, finished |-> FALSE]
    /\ file_creates' = file_creates + 1
    /\ Goto("walk")
    /\ UNCHANGED <<ctl_vars, init_vars, update_vars, race_vars, config_data, gate_vars, fmt_vars, tree,
                   excl_skipped, upload_vars>>

\* current_dir()/file_name() or remove_file fails (nothing changed), or
\* File::create fails after the stale file was removed
BuildStartFails ==
    /\ pc = "build"
    /\ \E removed \in BOOLEAN :
          /\ zip_file' = IF removed THEN NoFile ELSE zip_file
          /\ file_removes' = IF removed
                                THEN file_removes + StaleRemovals(zip_file)
                                ELSE file_removes
    /\ Fail("build")
    /\ UNCHANGED <<ctl_vars, init_vars, update_vars, race_vars, config_data, gate_vars, fmt_vars, path_vars,
                   tree, excl_skipped, file_creates, upload_vars>>

\* the walk completes and zip.finish() succeeds
BuildWalk ==
    /\ pc = "walk"
    /\ \E t \in Trees :
          /\ tree' = t
          /\ excl_skipped' =
                {e \in t \cup {RootEntry} :
                    ExcludedByList(EntryPath(current_dir, e.name),
                                   Excluded(config_data.exclude))}
          /\ zip_file' = [origin |-> "run",
                          entries |-> ArchiveEntries(current_dir, t, format,
                                                     config_data.exclude),
                          finished |-> TRUE]
    /\ Goto("upload")
    /\ UNCHANGED <<ctl_vars, init_vars, update_vars, race_vars, config_data, gate_vars, fmt_vars, path_vars,
                   file_creates, file_removes, upload_vars>>

\* variant: the build error is dropped and main goes on to the upload
BuildWalkFails_Uploads ==
    /\ pc = "walk"
    /\ \E t \in Trees :
          /\ tree' = t
          /\ \E part \in SUBSET ArchiveEntries(current_dir, t, format,
                                               config_data.exclude) :
                zip_file' = [origin |-> "run", entries |-> part,
                             finished |-> FALSE]
    /\ Goto("upload")
    /\ UNCHANGED <<ctl_vars, init_vars, update_vars, race_vars, config_data, gate_vars, fmt_vars, path_vars,
                   excl_skipped, file_creates, file_removes, upload_vars>>

\* a File::open, a write or zip.finish() fails: the archive stays partial
BuildWalkFails ==
    /\ pc = "walk"
    /\ \E t \in Trees :
          /\ tree' = t
          /\ \E part \in SUBSET ArchiveEntries(current_dir, t, format,
                                               config_data.exclude) :
                zip_file' = [origin |-> "run", entries |-> part,
                             finished |-> FALSE]
    /\ Fail("build")
    /\ UNCHANGED <<ctl_vars, init_vars, update_vars, race_vars, config_data, gate_vars, fmt_vars, path_vars,
                   excl_skipped, file_creates, file_removes, upload_vars>>

(* ---------------- send_zip_to_endpoint ---------------- *)

\* File::open and read_to_end
UploadRead ==
    /\ pc = "upload"
    /\ Exists(zip_file)
    /\ zip_content' = [read |-> TRUE, entries |-> zip_file.entries]
    /\ Goto("post")
    /\ UNCHANGED <<ctl_vars, init_vars, update_vars, race_vars, config_data, gate_vars, fmt_vars, build_vars,
                   status, submit_requests>>

\* the artifact cannot be opened or read
UploadReadFails ==
    /\ pc = "upload"
    /\ Fail("read")
    /\ UNCHANGED <<ctl_vars, init_vars, update_vars, race_vars, config_data, gate_vars, fmt_vars, build_vars,
                   upload_vars>>

\* variant: the artifact is removed although no response was obtained
UploadTransportFails_Cleans ==
    /\ pc = "post"
    /\ submit_requests' = submit_requests + 1
    /\ zip_file' = NoFile
    /\ file_removes' = file_removes + 1
    /\ Fail("transport")
    /\ UNCHANGED <<ctl_vars, init_vars, update_vars, race_vars, config_data, gate_vars, fmt_vars, path_vars,
                   tree, excl_skipped, file_creates, zip_content, status>>

\* variant: the request is sent again after a transport failure
UploadTransportFails_Retries ==
    /\ pc = "post"
    /\ submit_requests' = submit_requests + 1
    /\ Goto("post")
    /\ UNCHANGED <<ctl_vars, init_vars, update_vars, race_vars, config_data, gate_vars, fmt_vars, build_vars,
                   zip_content, status>>

\* send() fails before a response is obtained
UploadTransportFails ==
    /\ pc = "post"
    /\ submit_requests' = submit_requests + 1
    /\ Fail("transport")
    /\ UNCHANGED <<ctl_vars, init_vars, update_vars, race_vars, config_data, gate_vars, fmt_vars, build_vars,
                   zip_content, status>>

\* does send_zip_to_endpoint reach remove_file with this response
ReachesCleanup(is_success, text_ok) ==
    is_success /\ text_ok

\* send() returns a response: success status (body read or not) or not
UploadResponse ==
    /\ pc = "post"
    /\ submit_requests' = submit_requests + 1
    /\ \E is_success \in BOOLEAN, text_ok \in BOOLEAN :
          /\ status' = IF is_success THEN "success" ELSE "rejected"
          /\ IF ReachesCleanup(is_success, text_ok)
                THEN Goto("cleanup")
                ELSE Fail(IF is_success THEN "body" ELSE "rejected")
    /\ UNCHANGED <<ctl_vars, init_vars, update_vars, race_vars, config_data, gate_vars, fmt_vars, build_vars,
                   zip_content>>

\* std::fs::remove_file(zip_path) succeeds; main returns Ok
UploadCleanup ==
    /\ pc = "cleanup"
    /\ Exists(zip_file)
    /\ zip_file' = NoFile
    /\ file_removes' = file_removes + 1
    /\ Succeed
    /\ UNCHANGED <<ctl_vars, init_vars, update_vars, race_vars, config_data, gate_vars, fmt_vars, path_vars,
                   tree, excl_skipped, file_creates, upload_vars>>

\* std::fs::remove_file(zip_path) fails
UploadCleanupFails ==
    /\ pc = "cleanup"
    /\ Fail("remove")
    /\ UNCHANGED <<ctl_vars, init_vars, update_vars, race_vars, config_data, gate_vars, fmt_vars, build_vars,
                   upload_vars>>

(* ---------------- create_config_file (init) ---------------- *)

ConfigExists(f) ==
    f # NoConfigFile

\* the SubmissionConfig written by create_config_file
DefaultConfig(api_key, competition_id) ==
    [state |-> "default",
     api_key |-> IF api_key = None THEN "your-api-key-here" ELSE api_key,
     competition_id |-> competition_id]

\* File::create succeeded but serde_yaml::to_writer did not complete
PartialConfig ==
    [state |-> "partial", api_key |-> None, competition_id |-> None]

\* variant: the answer is not tested
AfterOverwrite_AlwaysWrites(answer) ==
    "write"

\* `if !overwrite { return Ok(()) }`
AfterOverwrite(answer) ==
    IF answer THEN "write" ELSE "done"

\* the file exists: the user answers "Overwrite?"
CreateConfigFileExisting ==
    /\ pc = "init"
    /\ ConfigExists(config_file)
    /\ \E answer \in BOOLEAN :
          /\ overwrite' = IF answer THEN "yes" ELSE "no"
          /\ IF AfterOverwrite(answer) = "done"
                THEN Succeed
                ELSE Goto(AfterOverwrite(answer))
    /\ UNCHANGED <<ctl_vars, send_vars, config_file, update_vars, race_vars>>

\* the file exists and interact() fails
CreateConfigFilePromptFails ==
    /\ pc = "init"
    /\ ConfigExists(config_file)
    /\ Fail("prompt")
    /\ UNCHANGED <<ctl_vars, send_vars, init_vars, update_vars, race_vars>>

\* the file does not exist: no prompt
CreateConfigFileFresh ==
    /\ pc = "init"
    /\ ~ConfigExists(config_file)
    /\ Goto("write")
    /\ UNCHANGED <<ctl_vars, send_vars, init_vars, update_vars, race_vars>>

\* File::create and serde_yaml::to_writer succeed
CreateConfigFileWrite ==
    /\ pc = "write"
    /\ config_file' = DefaultConfig(init_api_key, init_competition_id)
    /\ Succeed
    /\ UNCHANGED <<ctl_vars, send_vars, overwrite, update_vars, race_vars>>

\* File::create fails (file as before) or to_writer fails (file truncated)
CreateConfigFileWriteFails ==
    /\ pc = "write"
    /\ \E created \in BOOLEAN :
          config_file' = IF created THEN PartialConfig ELSE config_file
    /\ Fail("write")
    /\ UNCHANGED <<ctl_vars, send_vars, overwrite, update_vars, race_vars>>

(* ---------------- check_for_updates and update_to_latest ---------------- *)

\* what the request to the release feed yields
FeedOutcomes ==
    {"transport_error", "not_found", "error_status", "bad_body", "release"}

\* variant: the versions are compared before the asset is looked for
CheckForUpdates_VersionFirst(outcome, suitable_asset, latest, current) ==
    IF outcome = "transport_error" THEN "err"
    ELSE IF outcome = "not_found" THEN "none"
    ELSE IF outcome = "error_status" THEN "err"
    ELSE IF outcome = "bad_body" THEN "err"
    ELSE IF ~(latest > current) THEN "none"
    ELSE IF ~suitable_asset THEN "err"
    ELSE "some"

\* the result of check_for_updates: "err", "none" (Ok(None)) or "some"
CheckForUpdates(outcome, suitable_asset, latest, current) ==
    IF outcome = "transport_error" THEN "err"
    ELSE IF outcome = "not_found" THEN "none"
    ELSE IF outcome = "error_status" THEN "err"
    ELSE IF outcome = "bad_body" THEN "err"
    ELSE IF ~suitable_asset THEN "err"
    ELSE IF latest > current THEN "some"
    ELSE "none"

\* main calls check_for_updates
UpdateCheck ==
    /\ pc = "update"
    /\ \E outcome \in FeedOutcomes, suitable_asset \in BOOLEAN,
          latest \in Versions, kind \in {"script", "manual"} :
          LET result == CheckForUpdates(outcome, suitable_asset, latest,
                                        current_version) IN
          /\ update_result' = result
          /\ latest_version' = IF outcome = "release" THEN latest
                               ELSE latest_version
          /\ installer' = IF result = "some" THEN kind ELSE installer
          /\ asset' = IF outcome # "release" THEN asset
                      ELSE IF suitable_asset THEN "found" ELSE "missing"
          /\ IF result = "err" THEN Fail("update_check")
             ELSE IF result = "none" THEN Succeed
             ELSE Goto("download")
    /\ UNCHANGED <<ctl_vars, send_vars, init_vars, current_version, downloads,
                   installs, install_confirm, race_vars>>

\* `if !force { prompt }` after the download
AfterDownload(forced) ==
    IF forced THEN "install" ELSE "install_confirm"

\* update_to_latest: the installer file is downloaded into a temp directory
UpdateDownload ==
    /\ pc = "download"
    /\ downloads' = downloads + 1
    /\ Goto(AfterDownload(force))
    /\ UNCHANGED <<ctl_vars, send_vars, init_vars, current_version,
                   latest_version, update_result, installer, asset, installs,
                   install_confirm, race_vars>>

\* tempdir() fails (nothing requested), or the request or the copy fails
UpdateDownloadFails ==
    /\ pc = "download"
    /\ \E requested \in BOOLEAN :
          downloads' = IF requested THEN downloads + 1 ELSE downloads
    /\ Fail("download")
    /\ UNCHANGED <<ctl_vars, send_vars, init_vars, current_version,
                   latest_version, update_result, installer, asset, installs,
                   install_confirm, race_vars>>

\* variant: the answer is not tested
AfterInstallConfirm_AlwaysInstalls(answer) ==
    "install"

\* `if !confirm { return Ok(()) }`
AfterInstallConfirm(answer) ==
    IF answer THEN "install" ELSE "done"

\* the user answers "Ready to install the latest version. Continue?"
UpdateConfirm ==
    /\ pc = "install_confirm"
    /\ \E answer \in BOOLEAN :
          /\ install_confirm' = IF answer THEN "yes" ELSE "no"
          /\ IF AfterInstallConfirm(answer) = "done"
                THEN Succeed
                ELSE Goto(AfterInstallConfirm(answer))
    /\ UNCHANGED <<ctl_vars, send_vars, init_vars, current_version,
                   latest_version, update_result, installer, asset, downloads,
                   installs, race_vars>>

\* interact() fails
UpdateConfirmFails ==
    /\ pc = "install_confirm"
    /\ Fail("prompt")
    /\ UNCHANGED <<ctl_vars, send_vars, init_vars, update_vars, race_vars>>

\* handle_unix_update / handle_windows_update: scripts and installers are
\* run, archives and other files are left for manual installation
UpdateInstall ==
    /\ pc = "install"
    /\ IF installer = "script"
          THEN \E outcome \in {"spawn_fails", "exit_ok", "exit_failure"} :
                  /\ installs' = IF outcome = "spawn_fails" THEN installs
                                 ELSE installs + 1
                  /\ IF outcome = "exit_ok" THEN Succeed ELSE Fail("install")
          ELSE /\ installs' = installs
               /\ Succeed
    /\ UNCHANGED <<ctl_vars, send_vars, init_vars, current_version,
                   latest_version, update_result, installer, asset, downloads,
                   install_confirm, race_vars>>

Next ==
    \/ CreateConfigFileExisting
    \/ CreateConfigFilePromptFails
    \/ CreateConfigFileFresh
    \/ CreateConfigFileWrite
    \/ CreateConfigFileWriteFails
    \/ UpdateCheck
    \/ UpdateDownload
    \/ UpdateDownloadFails
    \/ UpdateConfirm
    \/ UpdateConfirmFails
    \/ UpdateInstall
    \/ LoadConfig
    \/ LoadConfigFails
    \/ ResolveFormat
    \/ CheckWithServer
    \/ CheckWithServerFails
    \/ CheckWithServerPanics
    \/ Confirm
    \/ ConfirmFails
    \/ ValidateFormat
    \/ BuildStart
    \/ BuildStartFails
    \/ BuildWalk
    \/ BuildWalkFails
    \/ UploadRead
    \/ UploadReadFails
    \/ UploadTransportFails
    \/ UploadResponse
    \/ UploadCleanup
    \/ UploadCleanupFails

Spec ==
    Init /\ [][Next]_vars

(***************************************************************************)
(* Two `send` processes at once.  Each runs create_zip_archive and         *)
(* send_zip_to_endpoint; they interleave at the file-system calls.  A file *)
(* is an inode (0 for one left by an earlier run, else the run that        *)
(* created it), the runs that wrote into it since it was last truncated    *)
(* and those that finished their archive in it.  Unix semantics: a         *)
(* removed file stays writable through an open descriptor, and File::create *)
(* on an existing path truncates the inode that is there.                  *)
(***************************************************************************)

main_vars ==
    <<pc, exit_code, error, ctl_vars, send_vars, init_vars, update_vars>>

ZipPaths ==
    {ZipPath(d) : d \in Roots}

Absent ==
    [exists |-> FALSE, inode |-> 0, writers |-> {}, finished |-> {}]

StaleFile ==
    [exists |-> TRUE, inode |-> 0, writers |-> {}, finished |-> {}]

InitRace ==
    /\ command = "send"
    /\ pc = "done"
    /\ exit_code = "running"
    /\ error = "none"
    /\ force_format = None
    /\ auto_confirm = FALSE
    /\ zip_file = NoFile
    /\ init_api_key = None
    /\ init_competition_id = None
    /\ config_file = NoConfigFile
    /\ force = FALSE
    /\ current_version = 0
    /\ SendStart
    /\ OtherStart
    /\ r_dir \in [Runs -> Roots]
    /\ r_pc = [r \in Runs |-> "build"]
    /\ r_fd = [r \in Runs |-> 0]
    /\ r_sent = [r \in Runs |-> NotRead]
    /\ r_error = [r \in Runs |-> "none"]
    /\ r_removes = [r \in Runs |-> 0]
    /\ fs \in [ZipPaths -> {Absent, StaleFile}]

\* the zip_path of run r
PathOf(r) ==
    ZipPath(r_dir[r])

RaceGoto(r, label) ==
    r_pc' = [r_pc EXCEPT ![r] = label]

RaceFail(r, kind) ==
    /\ r_pc' = [r_pc EXCEPT ![r] = "done"]
    /\ r_error' = [r_error EXCEPT ![r] = kind]

\* variant: a run waits while another run of the same path is under way
RaceExists_Locked(r) ==
    /\ r_pc[r] = "build"
    /\ \A q \in Runs \ {r} :
          PathOf(q) = PathOf(r) => r_pc[q] \in {"build", "done"}
    /\ RaceGoto(r, IF fs[PathOf(r)].exists THEN "remove" ELSE "create")
    /\ UNCHANGED <<main_vars, r_dir, r_fd, r_sent, r_error, r_removes, fs>>

\* `zip_path.exists()`
RaceExists(r) ==
    /\ r_pc[r] = "build"
    /\ RaceGoto(r, IF fs[PathOf(r)].exists THEN "remove" ELSE "create")
    /\ UNCHANGED <<main_vars, r_dir, r_fd, r_sent, r_error, r_removes, fs>>

\* `std::fs::remove_file(&zip_path)?` of the stale file
RaceRemoveStale(r) ==
    /\ r_pc[r] = "remove"
    /\ IF fs[PathOf(r)].exists
          THEN /\ fs' = [fs EXCEPT ![PathOf(r)] = Absent]
               /\ r_removes' = [r_removes EXCEPT ![r] = @ + 1]
               /\ RaceGoto(r, "create")
               /\ UNCHANGED r_error
          ELSE /\ RaceFail(r, "build")
               /\ UNCHANGED <<fs, r_removes>>
    /\ UNCHANGED <<main_vars, r_dir, r_fd, r_sent>>

\* `File::create(&zip_path)?`: a new inode, or the truncated existing one
\* into which a run still at its walk keeps writing
RaceCreate(r) ==
    /\ r_pc[r] = "create"
    /\ LET f == fs[PathOf(r)] IN
       IF f.exists
          THEN /\ fs' = [fs EXCEPT ![PathOf(r)] =
                           [exists |-> TRUE, inode |-> f.inode,
                            writers |-> {r} \cup
                               {q \in f.writers : r_pc[q] = "walk"
                                                  /\ r_fd[q] = f.inode},
                            finished |-> {}]]
               /\ r_fd' = [r_fd EXCEPT ![r] = f.inode]
          ELSE /\ fs' = [fs EXCEPT ![PathOf(r)] =
                           [exists |-> TRUE, inode |-> r, writers |-> {r},
                            finished |-> {}]]
               /\ r_fd' = [r_fd EXCEPT ![r] = r]
    /\ RaceGoto(r, "walk")
    /\ UNCHANGED <<main_vars, r_dir, r_sent, r_error, r_removes>>

\* the walk and zip.finish(): written through the descriptor, wherever the
\* path points by now
RaceWalk(r) ==
    /\ r_pc[r] = "walk"
    /\ LET f == fs[PathOf(r)] IN
       IF f.exists /\ f.inode = r_fd[r]
          THEN fs' = [fs EXCEPT ![PathOf(r)] =
                        [f EXCEPT !.finished = @ \cup {r}]]
          ELSE fs' = fs
    /\ RaceGoto(r, "upload")
    /\ UNCHANGED <<main_vars, r_dir, r_fd, r_sent, r_error, r_removes>>

\* `File::open(zip_path)?` and read_to_end in send_zip_to_endpoint
RaceRead(r) ==
    /\ r_pc[r] = "upload"
    /\ LET f == fs[PathOf(r)] IN
       IF f.exists
          THEN /\ r_sent' = [r_sent EXCEPT ![r] =
                               [read |-> TRUE, writers |-> f.writers,
                                complete |-> f.finished = f.writers]]
               /\ RaceGoto(r, "post")
               /\ UNCHANGED r_error
          ELSE /\ RaceFail(r, "read")
               /\ UNCHANGED r_sent
    /\ UNCHANGED <<main_vars, r_dir, r_fd, r_removes, fs>>

\* POST /submit: a success status with its body, or an Err
RacePost(r) ==
    /\ r_pc[r] = "post"
    /\ \E ok \in BOOLEAN :
          IF ok THEN RaceGoto(r, "cleanup") /\ UNCHANGED r_error
                ELSE RaceFail(r, "upload")
    /\ UNCHANGED <<main_vars, r_dir, r_fd, r_sent, r_removes, fs>>

\* `std::fs::remove_file(zip_path)?` after the upload
RaceCleanup(r) ==
    /\ r_pc[r] = "cleanup"
    /\ IF fs[PathOf(r)].exists
          THEN /\ fs' = [fs EXCEPT ![PathOf(r)] = Absent]
               /\ r_removes' = [r_removes EXCEPT ![r] = @ + 1]
               /\ RaceGoto(r, "done")
               /\ UNCHANGED r_error
          ELSE /\ RaceFail(r, "remove")
               /\ UNCHANGED <<fs, r_removes>>
    /\ UNCHANGED <<main_vars, r_dir, r_fd, r_sent>>

\* the steps of run r
RaceRun(r) ==
    \/ RaceExists(r)
    \/ RaceRemoveStale(r)
    \/ RaceCreate(r)
    \/ RaceWalk(r)
    \/ RaceRead(r)
    \/ RacePost(r)
    \/ RaceCleanup(r)

NextRace ==
    \/ \E r \in Runs : RaceExists(r)
    \/ \E r \in Runs : RaceRemoveStale(r)
    \/ \E r \in Runs : RaceCreate(r)
    \/ \E r \in Runs : RaceWalk(r)
    \/ \E r \in Runs : RaceRead(r)
    \/ \E r \in Runs : RacePost(r)
    \/ \E r \in Runs : RaceCleanup(r)

SpecRace ==
    InitRace /\ [][NextRace]_vars

(***************************************************************************)
(* create_zip_archive alone, over working trees that also hold a directory *)
(* whose path ends in "submission.yml" and a file below it.  The walk does  *)
(* not prune: `continue` skips one entry, its descendants are still visited.*)
(***************************************************************************)

P_b_submission_yml ==
    <<"b", "-", "s", "u", "b", "m", "i", "s", "s", "i", "o", "n", ".", "y", "m", "l">>

P_b_submission_yml_n_py ==
    <<"b", "-", "s", "u", "b", "m", "i", "s", "s", "i", "o", "n", ".", "y", "m", "l",
      "/", "n", ".", "p", "y">>

DeepUniverse ==
    Universe \cup { Entry(P_b_submission_yml, "dir"),
                    Entry(P_b_submission_yml_n_py, "file") }

DeepTrees ==
    {t \in SUBSET DeepUniverse : Cardinality(t) <= MaxEntries /\ ParentClosed(t)}

\* main calls create_zip_archive(compression, &format, &config_data.exclude)
\* after --force-format gave an accepted format (no check, no prompt)
InitWalk ==
    /\ command = "send"
    /\ pc = "build"
    /\ exit_code = "running"
    /\ error = "none"
    /\ force_format \in {"repo", "py"}
    /\ format = force_format
    /\ resolutions = 1
    /\ auto_confirm = FALSE
    /\ config_data \in [format : {None}, exclude : ExcludeLists,
                        preferences : [auto_confirm : {FALSE}]]
    /\ zip_file \in {NoFile, StaleZip}
    /\ check_response = NoResponse
    /\ parsed_response = NoResponse
    /\ current_dir = <<>>
    /\ zip_path = <<>>
    /\ tree = {}
    /\ excl_skipped = {}
    /\ zip_content = NoContent
    /\ status = None
    /\ confirmed = "none"
    /\ check_requests = 0
    /\ submit_requests = 0
    /\ prompts = 0
    /\ file_creates = 0
    /\ file_removes = 0
    /\ init_api_key = None
    /\ init_competition_id = None
    /\ config_file = NoConfigFile
    /\ force = FALSE
    /\ current_version = 0
    /\ OtherStart
    /\ RaceIdle

\* the walk completes and zip.finish() succeeds; create_zip_archive returns
DeepWalk ==
    /\ pc = "walk"
    /\ \E t \in DeepTrees :
          /\ tree' = t
          /\ excl_skipped' =
                {e \in t \cup {RootEntry} :
                    ExcludedByList(EntryPath(current_dir, e.name),
                                   Excluded(config_data.exclude))}
          /\ zip_file' = [origin |-> "run",
                          entries |-> ArchiveEntries(current_dir, t, format,
                                                     config_data.exclude),
                          finished |-> TRUE]
    /\ Goto("upload")
    /\ UNCHANGED <<ctl_vars, init_vars, update_vars, race_vars, config_data, gate_vars, fmt_vars, path_vars,
                   file_creates, file_removes, upload_vars>>

\* a File::open, a write or zip.finish() fails: the archive stays partial
DeepWalkFails ==
    /\ pc = "walk"
    /\ \E t \in DeepTrees :
          /\ tree' = t
          /\ \E part \in SUBSET ArchiveEntries(current_dir, t, format,
                                               config_data.exclude) :
                zip_file' = [origin |-> "run", entries |-> part,
                             finished |-> FALSE]
    /\ Fail("build")
    /\ UNCHANGED <<ctl_vars, init_vars, update_vars, race_vars, config_data, gate_vars, fmt_vars, path_vars,
                   excl_skipped, file_creates, file_removes, upload_vars>>

NextWalk ==
    \/ BuildStart
    \/ BuildStartFails
    \/ DeepWalk
    \/ DeepWalkFails

SpecWalk ==
    InitWalk /\ [][NextWalk]_vars

(* ---------------- properties ---------------- *)

\* a CheckResponse was received
Checked ==
    check_response # NoResponse

\* this run has written nothing at zip_path
ZipUntouched ==
    /\ file_creates = 0
    /\ file_removes = 0
    /\ zip_file.origin # "run"

C2_DeletedAfterRejection ==
    (pc = "done" /\ status = "rejected") => ~Exists(zip_file)

\* C3: after a success status, at the end of the run the artifact no longer
\* exists and the run exits zero.
C3_SuccessStatusCleansAndExitsZero ==
    (pc = "done" /\ status = "success") =>
        (~Exists(zip_file) /\ exit_code = "zero")

\* C4: when the uploader fails to open/read the artifact, or the transport
\* fails before a response, that step leaves the artifact as it is (no
\* removal) and the run ends non-zero.
C4_NoCleanupWithoutResponse ==
    [][(error = "none" /\ error' \in {"read", "transport"}) =>
          /\ zip_file' = zip_file
          /\ file_removes' = file_removes
          /\ status' = None
          /\ pc' = "done"
          /\ exit_code' = "nonzero"]_vars

C4_Witness ==
    /\ error = "transport"
    /\ zip_file.origin = "run"
    /\ zip_file.finished
    /\ zip_file.entries # {}
    /\ exit_code = "nonzero"

\* C5: with a forced format, or else a configured format, no /check request
\* is sent and no prompt is shown; the run goes from resolution to
\* validation and on to building with the locally given format.
C5_LocalFormatSkipsCheck ==
    (force_format # None \/ config_data.format # None) =>
        /\ check_requests = 0
        /\ prompts = 0
        /\ ~Checked
        /\ pc # "confirm"
        /\ pc \in {"build", "walk", "upload", "post", "cleanup"} =>
              (resolutions = 1 /\ format \in {force_format, config_data.format})

C5_Witness ==
    /\ force_format = None
    /\ config_data.format = "py"
    /\ pc = "walk"
    /\ check_requests = 0

\* C6: when the user declines at the prompt, no archive file is created,
\* nothing is sent to /submit, and the run exits zero without an error.
C6_DeclineAbortsCleanly ==
    confirmed = "no" =>
        /\ pc = "done"
        /\ exit_code = "zero"
        /\ error = "none"
        /\ ZipUntouched
        /\ submit_requests = 0

C6_Witness ==
    /\ confirmed = "no"
    /\ pc = "done"
    /\ check_requests = 1

C8_OnlyAcceptedFormatsAreBuilt ==
    /\ (format \notin {None, "repo", "py"}) =>
          /\ pc \in {"validate", "done"}
          /\ pc = "done" => (exit_code = "nonzero" /\ error = "format")
          /\ ZipUntouched
          /\ submit_requests = 0
    /\ (file_creates > 0 \/ pc \in {"build", "walk", "upload", "post",
                                    "cleanup"}) =>
          format \in {"repo", "py"}

C8_Witness ==
    /\ pc = "done"
    /\ error = "format"
    /\ force_format = None
    /\ config_data.format = None
    /\ check_response.required_format = "tar"

\* C9: the format is resolved once, as the forced format if given, else the
\* configured format if present, else the server's required_format; the
\* server is asked only when both are absent.
C9_FormatPriority ==
    /\ resolutions <= 1
    /\ (resolutions = 1) <=> (format # None)
    /\ format # None =>
          format = IF force_format # None THEN force_format
                   ELSE IF config_data.format # None THEN config_data.format
                   ELSE check_response.required_format
    /\ check_requests > 0 =>
          (force_format = None /\ config_data.format = None)

C9_Witness ==
    /\ force_format = "repo"
    /\ config_data.format = "py"
    /\ format = "repo"
    /\ pc = "build"

\* C10: an entry below the root is skipped by the exclusion test iff its path
\* relative to the root contains a member of the exclusion set; the root's
\* own absolute path plays no part.
C10_ExclusionOnRelativePath ==
    (zip_file.origin = "run" /\ zip_file.finished) =>
        \A e \in tree :
            (e \in excl_skipped) <=>
                ExcludedByList(e.name, Excluded(config_data.exclude))

\* a build of this run has written the file at zip_path
Built ==
    zip_file.origin = "run"

\* the entry set stands for the outcome of a complete walk
Complete ==
    Built /\ zip_file.finished

\* the last segment of a relative path
BaseName(p) ==
    IF ParentPath(p) = <<>> THEN p
    ELSE SubSeq(p, Len(ParentPath(p)) + 2, Len(p))

\* p lies below the directory d
Below(p, d) ==
    /\ Len(p) > Len(d) + 1
    /\ SubSeq(p, 1, Len(d) + 1) = d \o Slash

\* s contains a member of the exclusion set of this run
HasExcludedSubstring(s) ==
    \E i \in 1..Len(Excluded(config_data.exclude)) :
        Contains(s, Excluded(config_data.exclude)[i])

\* C11: no archive entry has a path containing a member of the exclusion set
\* (baseline plus user entries) as a substring, whatever the segment
\* boundaries, and nothing below an excluded directory is in the archive.
C11_NoExcludedSubstringInArchive ==
    Built =>
        /\ \A e \in zip_file.entries :
              /\ ~HasExcludedSubstring(e.name)
              /\ ~HasExcludedSubstring(EntryPath(current_dir, e.name))
        /\ \A d \in tree :
              (d.kind = "dir" /\ HasExcludedSubstring(d.name)) =>
                  \A e \in zip_file.entries : ~Below(e.name, d.name)

C11_Witness ==
    /\ Complete
    /\ current_dir = RootPlain
    /\ format = "repo"
    /\ tree = {Entry(P_retargeting_py, "file"), Entry(P_git, "dir"),
               Entry(P_git_c, "file")}
    /\ zip_file.entries = {}

C13_RepoArchiveDropsOnlyConfigFile ==
    (Complete /\ format = "repo" /\ config_data.exclude = <<>>) =>
        {e \in zip_file.entries : e.kind = "file"} =
            {f \in tree : /\ f.kind = "file"
                          /\ f \notin excl_skipped
                          /\ BaseName(f.name) # S_submission_yml}

\* C14: when the eligibility check fails (no CheckResponse is parsed from
\* an answer to the request), the run ends non-zero with no prompt, no archive file
\* created and no upload.
C14_FailedCheckAborts ==
    (check_requests > 0 /\ parsed_response = NoResponse) =>
        /\ pc = "done"
        /\ exit_code = "nonzero"
        /\ error = "check"
        /\ format = None
        /\ prompts = 0
        /\ ZipUntouched
        /\ submit_requests = 0

C14_Witness ==
    /\ error = "check"
    /\ check_requests = 1
    /\ zip_file = StaleZip
    /\ exit_code = "nonzero"

\* the path create_zip_archive computes for the two roots
ExpectedZipPath ==
    IF current_dir = RootPlain
       THEN <<"/", "t", "m", "p", "/", "p", ".", "z", "i", "p">>
       ELSE <<"/", "t", "m", "p", "/", "t", "a", "r", "g", "e", "t",
              ".", "z", "i", "p">>

\* C15: a run creates at most one artifact, at {temp dir}/{dir name}.zip; a
\* file already at that path is removed before the new one is created, and
\* what the uploader reads is the archive built by this run, never the old
\* content.
C15_OneFreshArtifact ==
    [][ /\ file_creates' <= 1
        /\ (pc = "build" /\ pc' = "walk") =>
              /\ zip_path' = ExpectedZipPath'
              /\ file_removes' = file_removes + (IF zip_file = NoFile THEN 0 ELSE 1)
              /\ zip_file' = [origin |-> "run", entries |-> {},
                              finished |-> FALSE]
        /\ zip_content'.read =>
              /\ Entry(P_old, "file") \notin zip_content'.entries
              /\ zip_content'.entries =
                    ArchiveEntries(current_dir', tree', format',
                                   config_data'.exclude) ]_vars

C15_Witness ==
    /\ zip_content.read
    /\ file_removes >= 1
    /\ file_creates = 1
    /\ zip_file.origin = "run"
    /\ zip_path = ZipPath(RootTarget)

\* C16: /submit is requested only after the artifact of a complete build of
\* this run was read; the build starts only after one format resolution
\* (with an approved check and confirmation where the check was needed) and
\* validation; a failed build is followed by no upload.
C16_StepsInOrder ==
    /\ submit_requests > 0 => zip_content.read
    /\ zip_content.read =>
          /\ file_creates = 1
          /\ error # "build"
          /\ zip_content.entries =
                ArchiveEntries(current_dir, tree, format, config_data.exclude)
    /\ (file_creates > 0 \/ pc = "build") =>
          /\ resolutions = 1
          /\ format \in {"repo", "py"}
          /\ check_requests > 0 =>
                /\ Checked
                /\ check_response.submission_approved
                /\ auto_confirm \/ config_data.preferences.auto_confirm
                      \/ confirmed = "yes"
    /\ error = "build" => (submit_requests = 0 /\ ~zip_content.read)

C16_Witness ==
    /\ submit_requests = 1
    /\ confirmed = "yes"
    /\ status = "success"
    /\ zip_content.entries # {}

\* C17: /check, the build and /submit are each performed at most once in a
\* run; the first error ends the run non-zero and no step follows it.
C17_NoRetry ==
    [][ /\ error = "none"
        /\ check_requests' <= 1
        /\ file_creates' <= 1
        /\ submit_requests' <= 1
        /\ error' # "none" => (pc' = "done" /\ exit_code' = "nonzero") ]_vars

C17_Witness ==
    /\ error = "transport"
    /\ check_requests = 1
    /\ file_creates = 1
    /\ submit_requests = 1
    /\ pc = "done"

\* C18 as stated: when the user declines the update prompt, nothing has
\* been downloaded and no installer has run.
C18_NoDownloadBeforeConfirmation ==
    install_confirm = "no" => (downloads = 0 /\ installs = 0)

\* C18 amended: the installer is downloaded only for a newer version; the
\* prompt comes after the download; an installer runs only after
\* confirmation or with --force; on decline the download has been made, no
\* installer runs and the run exits zero.
C18_InstallOnlyAfterConfirmation ==
    /\ downloads > 0 =>
          (update_result = "some" /\ latest_version > current_version)
    /\ (pc = "install_confirm" \/ install_confirm # "none") =>
          (downloads = 1 /\ ~force)
    /\ (pc = "install" \/ installs > 0) =>
          (downloads = 1 /\ (force \/ install_confirm = "yes"))
    /\ install_confirm = "no" =>
          /\ installs = 0
          /\ pc = "done"
          /\ exit_code = "zero"

C18_Witness ==
    /\ install_confirm = "no"
    /\ downloads = 1
    /\ installs = 0
    /\ pc = "done"

\* C19: init changes the configuration file only if it did not exist or the
\* user confirmed the overwrite; when the user does not confirm, the file
\* is left as it was and the action ends successfully; the default
\* configuration is written under the same condition only.
C19_NoOverwriteWithoutConfirmation ==
    [][ /\ config_file' # config_file =>
              (~ConfigExists(config_file) \/ overwrite' = "yes")
        /\ overwrite' = "no" =>
              /\ config_file' = config_file
              /\ pc' = "done"
              /\ exit_code' = "zero"
        /\ config_file'.state = "default" =>
              \/ config_file' = config_file
              \/ config_file' = DefaultConfig(init_api_key, init_competition_id)
       ]_vars

C19_Witness ==
    /\ overwrite = "no"
    /\ config_file.state = "user"
    /\ pc = "done"
    /\ exit_code = "zero"

\* C20: two concurrent runs of the same working directory share one zip
\* path and take no lock: no step of a run waits for the other run, and a
\* run whose upload finds its artifact gone, or reads content written by the
\* other run, shares its path with a run that removed or rewrote the file.
C20_SharedPathWithoutLock ==
    \A r \in Runs :
        /\ r_pc[r] # "done" => ENABLED RaceRun(r)
        /\ \A q \in Runs : r_dir[q] = r_dir[r] => PathOf(q) = PathOf(r)
        /\ r_error[r] = "read" =>
              \E q \in Runs \ {r} :
                  PathOf(q) = PathOf(r) /\ r_removes[q] > 0
        /\ (r_sent[r].read /\ r_sent[r].writers # {r}) =>
              \E q \in Runs \ {r} :
                  PathOf(q) = PathOf(r) /\ q \in r_sent[r].writers

\* run 2 removed the archive run 1 had built and not yet read: run 1 fails
\* on open
C20_Witness ==
    /\ r_dir[1] = r_dir[2]
    /\ r_error[1] = "read"
    /\ r_removes[1] = 0
    /\ r_removes[2] = 1
    /\ r_pc[2] \in {"create", "done"}

\* C21: after a complete walk, in either format, every directory below the
\* root that the exclusion test lets through is a directory entry named by
\* its relative path, the root is no entry, and every directory above a file
\* entry (the root apart) is a directory entry of the archive.
C21_DirectoriesBecomeEntries ==
    Complete =>
        /\ \A d \in tree :
              (d.kind = "dir" /\ d \notin excl_skipped) =>
                  d \in zip_file.entries
        /\ \A e \in zip_file.entries : e.name # <<>>
        /\ \A f \in zip_file.entries :
              f.kind = "file" =>
                 \A d \in tree :
                     (d.kind = "dir" /\ Below(f.name, d.name)) =>
                         d \in zip_file.entries

\* a parsed response took the run past the eligibility check: to the prompt,
\* or to the resolved format
PastCheck ==
    pc = "confirm" \/ prompts > 0 \/ resolutions > 0

\* C22: once a check response is parsed, the run goes past the eligibility
\* check iff submission_approved is set, whatever remaining_attempts and
\* last_submission_by_user are.
C22_GateDependsOnlyOnApproval ==
    parsed_response # NoResponse =>
        (PastCheck <=> parsed_response.submission_approved)

\* C23: check_for_updates yields an update only for a latest release that is
\* strictly newer and has a suitable asset; a latest release without a
\* suitable asset makes it fail, before any download, whatever the versions
\* are; with a suitable asset and no newer version it reports no update.
C23_AssetSelectedBeforeVersionCompare ==
    /\ update_result = "some" =>
          (latest_version > current_version /\ asset = "found")
    /\ asset = "missing" =>
          /\ update_result = "err"
          /\ pc = "done"
          /\ exit_code = "nonzero"
          /\ downloads = 0
    /\ (asset = "found" /\ ~(latest_version > current_version)) =>
          /\ update_result = "none"
          /\ exit_code = "zero"
          /\ downloads = 0

\* the installed version is the latest and the release has no suitable asset
C23_Witness ==
    /\ command = "update"
    /\ asset = "missing"
    /\ latest_version = current_version
    /\ current_version > 0
    /\ update_result = "err"
    /\ exit_code = "nonzero"

====
